---- MODULE Spec2Model ----
(***************************************************************************)
(* A model of the eBPF tracer agent: the tracer supervisor (runner.py),    *)
(* the swap-latency window aggregator (swaphist.py) and the cgroup event   *)
(* pipeline with its clock conversion (cg_tracer.py, oom_tracer.py).       *)
(***************************************************************************)
EXTENDS Integers, Sequences, FiniteSets, TLC

(***************************************************************************)
(* Bounds of the model.                                                    *)
(***************************************************************************)
\* longest tracer list read from the configuration file
MaxTracers == 2
\* external SIGINT/SIGTERM deliveries to the supervisor in one run
MaxSignals == 2
\* passes of the supervisor's monitoring loop in one run
MaxRounds == 2
\* swap-fault latency samples the kernel side records in one run
MaxSamples == 3
\* flush windows of the swap-latency tracer in one run
MaxWindows == 2
\* cgroup events the kernel side submits in one run
MaxEvents == 2
\* advances of the clocks in one run
MaxTicks == 2
\* adjustments of the wall clock (settimeofday, NTP step) in one run
MaxAdjust == 1

\* The lines a tracer can write to its stdout pipe before the pipe is full.
PipeCapacity == 2

(***************************************************************************)
(* The supervisor: runner.py                                               *)
(***************************************************************************)
VARIABLES
    tracers,    \* the tracer list of the configuration, fixed after load
    procs,      \* the Popen handles run_tracers returned, in launch order
    frame,      \* the innermost frame of the supervisor: where it executes
    depth,      \* number of shutdown calls entered (frames above the main one)
    handlers,   \* the signals whose handler is shutdown
    exitcode,   \* {} while the supervisor runs, {code} once it has exited
    nsignals,   \* external signals delivered so far
    round,      \* number of passes of the monitoring loop started
    log         \* the lines the supervisor has printed, in order

supVars ==
    <<tracers, procs, frame, depth, handlers, exitcode, nsignals, round,
      log>>

\* The swap-latency tracer's state (swaphist.py).
VARIABLES
    dist,               \* BPF_HISTOGRAM(dist): slot -> counter
    sampled,            \* the latencies (ns) recorded so far, in order
    swap_pc,            \* "sleep" between windows, "flush" while draining,
                        \* "crashed" once an exception has ended the script
    unread,             \* slots dist.items() has yet to yield this window
    uncleared,          \* slots dist.clear() has yet to zero this window
    histogram_buckets,  \* the list the main loop builds for this window
    posted,             \* the payloads handed to requests.post, in order
    window,             \* number of windows started
    responses,          \* how this window's call of requests.post ended
    swap_stdout         \* the line printed after this window's call

swapVars ==
    <<dist, sampled, swap_pc, unread, uncleared, histogram_buckets, posted,
      window, responses, swap_stdout>>

\* The cgroup tracer's state (cg_tracer.py) and the clocks it reads.
VARIABLES
    mono,        \* CLOCK_MONOTONIC in ns: bpf_ktime_get_ns, time.monotonic
    wall,        \* the wall clock, time.time(), held in ms
    dst_end,     \* the UTC second at which the local UTC offset falls back
    boot_time,   \* the offset captured at startup, a float held in ms
    ring,        \* the perf buffer: raw events submitted and not yet polled
    handled,     \* the raw events on_event has been called with, in order
    cg_stdout,   \* the payloads of the "POSTING:" lines printed, in order
    collector,   \* the payloads POSTed to COLLECTOR, in order
    nticks,      \* advances of the clocks so far
    nadjust      \* adjustments of the wall clock so far

cgVars ==
    <<mono, wall, dst_end, boot_time, ring, handled, cg_stdout, collector,
      nticks, nadjust>>

\* The OOM tracer's state (oom_tracer.py).
VARIABLES
    oom_ring,       \* the perf buffer: events submitted and not yet handled
    oom_pc,         \* "poll" in perf_buffer_poll, "callback" inside on_event,
                    \* "exited" once the script has ended
    oom_posted,     \* the events submit handed to requests.post, each with
                    \* its payload, in order
    oom_stdout,     \* the "ERR:" lines printed, in order
    oom_clock,      \* a clock that ticks with every event and every signal
    oom_sigint_ts   \* the times at which a SIGINT raised KeyboardInterrupt

oomVars ==
    <<oom_ring, oom_pc, oom_posted, oom_stdout, oom_clock, oom_sigint_ts>>

\* What a configured tracer identifier can stand for: an executable that is
\* not there, a tracer that exits on SIGINT, a tracer that does not.
TracerKinds == {"missing", "obeys", "ignores"}

\* Exit statuses a tracer process can end with.
ExitCodes == {0, 1}

\* The signals runner.py installs a handler for.
Signals == {"SIGINT", "SIGTERM"}

\* All sequences over S of length at most n.
SeqUpTo(S, n) == UNION {[1..k -> S] : k \in 0..n}

\* A test that takes every executable to be there.
exists_always(tracer) == TRUE

\* os.path.exists(path) of run_tracers.
path_exists(tracer) == tracer # "missing"

\* subprocess.Popen(["python3", path], stdout=PIPE, stderr=PIPE) of
\* run_tracers: a running process, not signalled, its two output streams
\* captured. buffered is what the stdout pipe holds, written and not yet
\* read; blocked tells that the process is inside a write to a full pipe.
\* exitRound records the monitoring pass during which it exited.
Popen(tracer) ==
    [args |-> tracer, stdout |-> "PIPE", stderr |-> "PIPE",
     buffered |-> 0, blocked |-> FALSE,
     returncode |-> {}, sigint |-> FALSE, obeys |-> tracer = "obeys",
     exitRound |-> 0]

\* The lines runner.py prints.
StartingTracer(tracer) == [msg |-> "Starting tracer", tracer |-> tracer]

TracerNotFound(tracer) == [msg |-> "not found", tracer |-> tracer]

RunnerStarted == [msg |-> "Runner started"]

ReceivedSignal(signum) == [msg |-> "Received signal", signum |-> signum]

AllShutDown == [msg |-> "All tracers have been shut down"]

\* A monitoring loop that reports nothing about the process it found exited.
no_diagnostic(pid, p) == [msg |-> "Shutting down"]

\* "Tracer process {p.pid} exited unexpectedly with code {p.returncode}" and
\* the STDOUT and STDERR blocks with what p.communicate() read from the pipes.
ExitedUnexpectedly(pid, p) ==
    [msg |-> "exited unexpectedly", pid |-> pid, returncode |-> p.returncode,
     stdout |-> p.stdout, stderr |-> p.stderr]

\* p.poll() is not None
poll_is_not_None(p) == p.returncode # {}

Frame(pc, i, signum) == [pc |-> pc, i |-> i, signum |-> signum]

\* shutdown never returns: it ends in exit(0), whose SystemExit unwinds every
\* frame. A frame beneath the innermost one therefore never resumes, and the
\* model keeps the innermost frame and the number of calls entered.
Call(f) == frame' = f /\ depth' = depth + 1

Goto(f) == frame' = f /\ depth' = depth

SupervisorRuns == exitcode = {}

\* load_config and the isinstance test: any list of at most MaxTracers names.
SupInit ==
    /\ tracers \in SeqUpTo(TracerKinds, MaxTracers)
    /\ procs = <<>>
    /\ frame = Frame("run_tracers", 1, "None")
    /\ depth = 0
    /\ handlers = {}
    /\ exitcode = {}
    /\ nsignals = 0
    /\ round = 0
    /\ log = <<>>

\* One iteration of run_tracers' loop, and its return once the list is done.
run_tracers ==
    /\ SupervisorRuns
    /\ frame.pc = "run_tracers"
    /\ IF frame.i <= Len(tracers)
       THEN /\ IF path_exists(tracers[frame.i])
               THEN /\ log' = Append(log, StartingTracer(tracers[frame.i]))
                    /\ procs' = Append(procs, Popen(tracers[frame.i]))
               ELSE /\ log' = Append(log, TracerNotFound(tracers[frame.i]))
                    /\ procs' = procs
            /\ Goto([frame EXCEPT !.i = @ + 1])
       ELSE /\ Goto(Frame("install_sigint", 1, "None"))
            /\ UNCHANGED <<procs, log>>
    /\ UNCHANGED <<tracers, handlers, exitcode, nsignals, round>>
    /\ UNCHANGED <<swapVars, cgVars, oomVars>>

\* signal.signal(signal.SIGINT, shutdown)
install_sigint ==
    /\ SupervisorRuns
    /\ frame.pc = "install_sigint"
    /\ handlers' = handlers \cup {"SIGINT"}
    /\ Goto(Frame("install_sigterm", 1, "None"))
    /\ UNCHANGED <<tracers, procs, exitcode, nsignals, round, log>>
    /\ UNCHANGED <<swapVars, cgVars, oomVars>>

\* signal.signal(signal.SIGTERM, shutdown), the "Runner started" line, then
\* entry into the first pass of the monitoring loop.
install_sigterm ==
    /\ SupervisorRuns
    /\ frame.pc = "install_sigterm"
    /\ handlers' = handlers \cup {"SIGTERM"}
    /\ Goto(Frame("poll", 1, "None"))
    /\ round' = 1
    /\ log' = Append(log, RunnerStarted)
    /\ UNCHANGED <<tracers, procs, exitcode, nsignals>>
    /\ UNCHANGED <<swapVars, cgVars, oomVars>>

\* A monitoring test that takes a clean exit (code 0) for a live process.
exited_nonzero_only(p) == p.returncode \notin {{}, {0}}

\* The test the monitoring loop makes on each process.
exited_unexpectedly(p) == poll_is_not_None(p)

\* One iteration of "for p in procs: if p.poll() is not None".
monitor_poll ==
    /\ SupervisorRuns
    /\ frame.pc = "poll"
    /\ IF frame.i <= Len(procs)
       THEN IF exited_unexpectedly(procs[frame.i])
            THEN Goto([frame EXCEPT !.pc = "report"])
            ELSE Goto([frame EXCEPT !.i = @ + 1])
       ELSE Goto(Frame("sleep", 1, "None"))
    /\ UNCHANGED <<tracers, procs, handlers, exitcode, nsignals, round, log>>
    /\ UNCHANGED <<swapVars, cgVars, oomVars>>

\* p.communicate(), which reads the pipes of the exited process to their
\* end, the diagnostic prints, and the call shutdown(None, None).
monitor_report ==
    /\ SupervisorRuns
    /\ frame.pc = "report"
    /\ Call(Frame("send", 1, "None"))
    /\ procs' = [procs EXCEPT ![frame.i].buffered = 0]
    /\ log' = log \o <<ExitedUnexpectedly(frame.i, procs[frame.i]),
                        ReceivedSignal("None")>>
    /\ UNCHANGED <<tracers, handlers, exitcode, nsignals, round>>
    /\ UNCHANGED <<swapVars, cgVars, oomVars>>

\* time.sleep(5), then the next pass of the loop.
monitor_sleep ==
    /\ SupervisorRuns
    /\ frame.pc = "sleep"
    /\ round < MaxRounds
    /\ round' = round + 1
    /\ Goto(Frame("poll", 1, "None"))
    /\ UNCHANGED <<tracers, procs, handlers, exitcode, nsignals, log>>
    /\ UNCHANGED <<swapVars, cgVars, oomVars>>

\* A send_signal that delivers nothing.
signals_nothing(p) == p

\* p.send_signal(signal.SIGINT): Popen polls first and signals a live process.
send_signal(p) ==
    IF poll_is_not_None(p) THEN p ELSE [p EXCEPT !.sigint = TRUE]

\* One iteration of shutdown's first loop, "for p in procs: p.send_signal".
shutdown_send ==
    /\ SupervisorRuns
    /\ frame.pc = "send"
    /\ IF frame.i <= Len(procs)
       THEN /\ procs' = [procs EXCEPT ![frame.i] = send_signal(@)]
            /\ Goto([frame EXCEPT !.i = @ + 1])
       ELSE /\ Goto([frame EXCEPT !.pc = "wait", !.i = 1])
            /\ procs' = procs
    /\ UNCHANGED <<tracers, handlers, exitcode, nsignals, round, log>>
    /\ UNCHANGED <<swapVars, cgVars, oomVars>>

\* A wait that returns at once, whether or not the process has exited.
wait_returns_at_once(p) == TRUE

\* p.wait() returns once the process has exited; there is no timeout.
wait_returns(p) == poll_is_not_None(p)

\* One iteration of shutdown's second loop, "for p in procs: p.wait()".
shutdown_wait ==
    /\ SupervisorRuns
    /\ frame.pc = "wait"
    /\ IF frame.i <= Len(procs)
       THEN /\ wait_returns(procs[frame.i])
            /\ Goto([frame EXCEPT !.i = @ + 1])
       ELSE Goto([frame EXCEPT !.pc = "exit"])
    /\ UNCHANGED <<tracers, procs, handlers, exitcode, nsignals, round, log>>
    /\ UNCHANGED <<swapVars, cgVars, oomVars>>

\* The closing line and exit(0): SystemExit unwinds every frame and the
\* interpreter exits.
shutdown_exit ==
    /\ SupervisorRuns
    /\ frame.pc = "exit"
    /\ exitcode' = {0}
    /\ log' = Append(log, AllShutDown)
    /\ UNCHANGED <<tracers, procs, frame, depth, handlers, nsignals, round>>
    /\ UNCHANGED <<swapVars, cgVars, oomVars>>

\* The exit status of a supervisor that dies of a signal it has no handler
\* for: KeyboardInterrupt for SIGINT, the default action for SIGTERM.
DefaultDisposition(sig) == IF sig = "SIGINT" THEN 130 ELSE 143

\* An external signal reaches the supervisor. With shutdown installed for it
\* the handler runs on top of whatever the supervisor was doing and prints
\* its first line; without, the supervisor dies of the signal.
deliver_signal(sig) ==
    /\ SupervisorRuns
    /\ nsignals < MaxSignals
    /\ nsignals' = nsignals + 1
    /\ IF sig \in handlers
       THEN /\ Call(Frame("send", 1, sig))
            /\ log' = Append(log, ReceivedSignal(sig))
            /\ exitcode' = exitcode
       ELSE /\ exitcode' = {DefaultDisposition(sig)}
            /\ UNCHANGED <<frame, depth, log>>
    /\ UNCHANGED <<tracers, procs, handlers, round>>
    /\ UNCHANGED <<swapVars, cgVars, oomVars>>

\* A tracer process exits, by itself or because of a SIGINT it received. A
\* process inside a write that cannot complete does not get to exit by
\* itself.
tracer_exits(k, code) ==
    /\ procs[k].returncode = {}
    /\ procs[k].blocked => procs[k].sigint
    /\ procs' = [procs EXCEPT ![k].returncode = {code}, ![k].exitRound = round]
    /\ UNCHANGED <<tracers, frame, depth, handlers, exitcode, nsignals, round,
                   log>>
    /\ UNCHANGED <<swapVars, cgVars, oomVars>>

\* A live tracer prints a line to its stdout, as cg_tracer.py does for every
\* event with print(..., flush=True): the write completes when the pipe has
\* room and blocks when the pipe is full.
tracer_print(k) ==
    /\ procs[k].returncode = {}
    /\ ~procs[k].blocked
    /\ procs' = IF procs[k].buffered < PipeCapacity
                THEN [procs EXCEPT ![k].buffered = @ + 1]
                ELSE [procs EXCEPT ![k].blocked = TRUE]
    /\ UNCHANGED <<tracers, frame, depth, handlers, exitcode, nsignals, round,
                   log>>
    /\ UNCHANGED <<swapVars, cgVars, oomVars>>

SupNext ==
    \/ run_tracers
    \/ install_sigint
    \/ install_sigterm
    \/ monitor_poll
    \/ monitor_report
    \/ monitor_sleep
    \/ shutdown_send
    \/ shutdown_wait
    \/ shutdown_exit
    \/ \E sig \in Signals : deliver_signal(sig)
    \/ \E k \in 1..Len(procs), code \in ExitCodes : tracer_exits(k, code)

\* The supervisor's steps: everything but the environment's signals and the
\* tracer processes' own exits.
SupStep ==
    \/ run_tracers
    \/ install_sigint
    \/ install_sigterm
    \/ monitor_poll
    \/ monitor_report
    \/ monitor_sleep
    \/ shutdown_send
    \/ shutdown_wait
    \/ shutdown_exit

\* A tracer that handles SIGINT exits once it has received it.
obeying_exit(k) ==
    /\ k <= Len(procs)
    /\ procs[k].obeys
    /\ procs[k].sigint
    /\ \E code \in ExitCodes : tracer_exits(k, code)

\* The lifecycle state of the supervisor, read off its position.
SupState ==
    IF exitcode # {} THEN "Terminated"
    ELSE IF depth > 0 THEN "ShuttingDown"
    ELSE IF frame.pc = "run_tracers" THEN "Starting"
    ELSE "Running"

(***************************************************************************)
(* The swap-latency window aggregator: swaphist.py                         *)
(***************************************************************************)
\* delta, in ns, of the swap faults the kernel side measures.
DeltaNs == {500, 1000, 10000, 2000000}

\* bpf_log2 of the BPF helper library: the position of the highest set bit
\* of a 32-bit value, found by binary search (r |= shift adds a bit that is
\* not yet set).
bpf_log2(v) ==
    LET r1 == IF v > 65535 THEN 16 ELSE 0
        v1 == v \div (2 ^ r1)
        s2 == IF v1 > 255 THEN 8 ELSE 0
        v2 == v1 \div (2 ^ s2)
        s3 == IF v2 > 15 THEN 4 ELSE 0
        v3 == v2 \div (2 ^ s3)
        s4 == IF v3 > 3 THEN 2 ELSE 0
        v4 == v3 \div (2 ^ s4)
    IN  r1 + s2 + s3 + s4 + (v4 \div 2)

\* bpf_log2l(v) for a value below 2^32: bpf_log2(v) + 1, so that slot i of a
\* log2 histogram holds the values from 2^(i-1) to 2^i - 1 (0 and 1 share
\* slot 1).
bpf_log2l(v) == bpf_log2(v) + 1

\* delta / 1000: ns to us, unsigned integer division.
ns_to_us(delta) == delta \div 1000

\* The slot trace_handle_mm_fault_end increments for a fault of delta ns.
slot_of(delta) == bpf_log2l(ns_to_us(delta))

\* The slots of the table a sample can reach. The table has 64 slots; the
\* others hold 0 throughout, are skipped when read and unchanged when cleared.
Slots == {slot_of(delta) : delta \in DeltaNs}

\* A slot's counter, with the identities (positions in sampled) of the
\* samples it currently counts.
Leaf(value, ids) == [value |-> value, ids |-> ids]

\* dist.increment(slot): an atomic add on the slot.
increment(leaf, id) == Leaf(leaf.value + 1, leaf.ids \cup {id})

\* A clear that leaves the slot as it is.
clearitem_keeps(leaf) == leaf

\* What dist.clear() does to one slot: the counter is set to zero.
clearitem(leaf) == Leaf(0, {})

\* A test that skips no bucket.
skips_none(leaf) == FALSE

\* "if value.value == 0: continue"
is_zero(leaf) == leaf.value = 0

\* start_us = 2**bucket.value
range_start_us(bucket) == 2 ^ bucket

\* end_us = 2 ** (bucket.value + 1) - 1
range_end_us(bucket) == 2 ^ (bucket + 1) - 1

\* The dictionary appended to histogram_buckets for one slot.
Bucket(slot, leaf) ==
    [range_start_us |-> range_start_us(slot),
     range_end_us |-> range_end_us(slot),
     count |-> leaf.value,
     ids |-> leaf.ids]

\* Insertion of b into a list sorted by range_start_us, after its equals.
RECURSIVE insert_sorted(_, _)
insert_sorted(b, list) ==
    IF list = <<>> THEN <<b>>
    ELSE IF b.range_start_us < Head(list).range_start_us THEN <<b>> \o list
    ELSE <<Head(list)>> \o insert_sorted(b, Tail(list))

RECURSIVE sort_by_range_start(_)
sort_by_range_start(list) ==
    IF list = <<>> THEN <<>>
    ELSE insert_sorted(list[Len(list)],
                       sort_by_range_start(SubSeq(list, 1, Len(list) - 1)))

\* A payload built from the list in the order the table yielded it.
unsorted(list) == list

\* sorted(histogram_buckets, key=lambda x: x["range_start_us"])
sorted(list) == sort_by_range_start(list)

\* The JSON payload of one window.
payload(buckets) ==
    [type |-> "swap_fault_latency", latency_distribution_us |-> sorted(buckets)]

SwapInit ==
    /\ dist = [slot \in Slots |-> Leaf(0, {})]
    /\ sampled = <<>>
    /\ swap_pc = "sleep"
    /\ unread = {}
    /\ uncleared = {}
    /\ histogram_buckets = <<>>
    /\ posted = <<>>
    /\ window = 0
    /\ responses = <<>>
    /\ swap_stdout = <<>>

\* requests.post(url, json=payload, timeout=5) returns a response with some
\* status, or raises.
Response(status) == [raises |-> "None", status |-> status]

Raises(exception) == [raises |-> exception, status |-> 0]

\* The ways a call of requests.post can end: a 2xx answer, an error answer,
\* an endpoint that cannot be reached, no answer within the timeout, and an
\* error that is not a RequestException (the OSError raised for a TLS
\* certificate bundle that is not there).
PostOutcomes ==
    {Response(200), Response(500), Raises("ConnectionError"),
     Raises("Timeout"), Raises("OSError")}

\* except requests.exceptions.RequestException
is_RequestException(exception) == exception \in {"ConnectionError", "Timeout"}

\* except Exception
is_Exception(exception) ==
    exception \in {"ConnectionError", "Timeout", "OSError"}

\* The lines swaphist.py prints after a call of requests.post, and the
\* traceback of an exception nothing catches.
SuccessfullyPosted == [msg |-> "Successfully posted event"]

ErrorPosting == [msg |-> "Error posting to collector"]

Traceback == [msg |-> "Traceback (most recent call last)"]

\* Kernel side: a swap fault of delta ns ends and is counted. The probes are
\* attached for as long as the script lives.
trace_handle_mm_fault_end(delta) ==
    /\ swap_pc # "crashed"
    /\ Len(sampled) < MaxSamples
    /\ sampled' = Append(sampled, delta)
    /\ dist' = [dist EXCEPT ![slot_of(delta)] = increment(@, Len(sampled) + 1)]
    /\ UNCHANGED <<swap_pc, unread, uncleared, histogram_buckets, posted,
                   window, responses, swap_stdout>>
    /\ UNCHANGED <<supVars, cgVars, oomVars>>

\* time.sleep(5) returns and a window's flush begins with an empty list.
swap_sleep ==
    /\ swap_pc = "sleep"
    /\ window < MaxWindows
    /\ window' = window + 1
    /\ swap_pc' = "flush"
    /\ histogram_buckets' = <<>>
    /\ unread' = Slots
    /\ uncleared' = Slots
    /\ responses' = <<>>
    /\ swap_stdout' = <<>>
    /\ UNCHANGED <<dist, sampled, posted>>
    /\ UNCHANGED <<supVars, cgVars, oomVars>>

\* One iteration of "for bucket, value in dist.items()": the table yields a
\* slot, in an order of its own, and the slot is looked up.
swap_items(slot) ==
    /\ swap_pc = "flush"
    /\ slot \in unread
    /\ unread' = unread \ {slot}
    /\ histogram_buckets' =
          IF is_zero(dist[slot]) THEN histogram_buckets
          ELSE Append(histogram_buckets, Bucket(slot, dist[slot]))
    /\ UNCHANGED <<dist, sampled, swap_pc, uncleared, posted, window,
                   responses, swap_stdout>>
    /\ UNCHANGED <<supVars, cgVars, oomVars>>

\* dist.clear(): after the read loop, the slots are zeroed one by one.
swap_clear(slot) ==
    /\ swap_pc = "flush"
    /\ unread = {}
    /\ slot \in uncleared
    /\ uncleared' = uncleared \ {slot}
    /\ dist' = [dist EXCEPT ![slot] = clearitem(@)]
    /\ UNCHANGED <<sampled, swap_pc, unread, histogram_buckets, posted, window,
                   responses, swap_stdout>>
    /\ UNCHANGED <<supVars, cgVars, oomVars>>

\* "if not histogram_buckets: continue", else the payload is built and
\* handed to requests.post, which ends in one of PostOutcomes. A response, of
\* any status, is followed by the "Successfully posted" line; a
\* RequestException is caught and reported; any other exception leaves the
\* loop, whose enclosing try catches KeyboardInterrupt only, and ends the
\* script.
swap_post(outcome) ==
    /\ swap_pc = "flush"
    /\ unread = {}
    /\ uncleared = {}
    /\ IF histogram_buckets = <<>>
       THEN /\ swap_pc' = "sleep"
            /\ UNCHANGED <<posted, responses, swap_stdout>>
       ELSE /\ posted' = Append(posted, payload(histogram_buckets))
            /\ responses' = <<outcome>>
            /\ IF outcome.raises = "None"
               THEN /\ swap_stdout' = <<SuccessfullyPosted>>
                    /\ swap_pc' = "sleep"
               ELSE IF is_RequestException(outcome.raises)
               THEN /\ swap_stdout' = <<ErrorPosting>>
                    /\ swap_pc' = "sleep"
               ELSE /\ swap_stdout' = <<Traceback>>
                    /\ swap_pc' = "crashed"
    /\ UNCHANGED <<dist, sampled, unread, uncleared, histogram_buckets, window>>
    /\ UNCHANGED <<supVars, cgVars, oomVars>>

SwapNext ==
    \/ \E delta \in DeltaNs : trace_handle_mm_fault_end(delta)
    \/ swap_sleep
    \/ \E slot \in Slots : swap_items(slot)
    \/ \E slot \in Slots : swap_clear(slot)
    \/ \E outcome \in PostOutcomes : swap_post(outcome)

(***************************************************************************)
(* The cgroup tracer and the clock conversion: cg_tracer.py (oom_tracer.py *)
(* converts timestamps with the same two statements)                       *)
(***************************************************************************)
\* A float number of seconds is held in ms: x / 1e9 of an integer number
\* of ns, rounded to the nearest value the representation has.
to_float(ns) == (ns + 500000) \div 1000000

\* time.time() - time.monotonic(), evaluated now.
offset_now == wall - to_float(mono)

\* An event time computed with the offset of the moment of handling.
event_time_offset_now(ts_ns) == offset_now + to_float(ts_ns)

\* event_time = boot_time + (ev.ts_ns / 1e9)
event_time(ts_ns) == boot_time + to_float(ts_ns)

\* The UTC offset of local time at a UTC second, across one fall-back.
tm_gmtoff(sec) == IF sec < dst_end THEN 7200 ELSE 3600

\* time.localtime(event_time): whole seconds, as local time with its offset.
localtime(t) ==
    LET sec == t \div 1000
    IN  [tm |-> sec + tm_gmtoff(sec), tm_gmtoff |-> tm_gmtoff(sec)]

\* time.strftime("%Y-%m-%dT%H:%M:%S%z", st): the local date and time, and
\* the offset.
strftime(st) == [datetime |-> st.tm, z |-> st.tm_gmtoff]

\* The "ts" of an event with kernel timestamp ts_ns.
wallClock(ts_ns) == strftime(localtime(event_time(ts_ns)))

\* The instant an ISO-8601 timestamp with offset denotes, in UTC seconds.
instant_of(ts) == ts.datetime - ts.z

\* CGROOT and K8S_SLICE, at their defaults. A string is a sequence of
\* pieces, "/" always a piece of its own.
CGROOT == <<"/", "sys", "/", "fs", "/", "cgroup">>

KUBE_SLICE == <<"kubepods.slice">>

\* os.path.join(a, b)
path_join(a, b) ==
    IF b # <<>> /\ Head(b) = "/" THEN b
    ELSE IF a = <<>> \/ a[Len(a)] = "/" THEN a \o b
    ELSE a \o <<"/">> \o b

KUBE_SLICE_CGROUP == path_join(CGROOT, KUBE_SLICE)

\* str.startswith
startswith(str, prefix) ==
    /\ Len(str) >= Len(prefix)
    /\ SubSeq(str, 1, Len(prefix)) = prefix

\* bytes.decode(errors="ignore"): bytes that are not valid UTF-8 are dropped.
decode_ignore(bytes) == SelectSeq(bytes, LAMBDA c : c # "\\xff")

\* str.strip("\x00")
RECURSIVE strip_nul(_)
strip_nul(str) ==
    IF str = <<>> THEN <<>>
    ELSE IF Head(str) = "\\x00" THEN strip_nul(Tail(str))
    ELSE IF str[Len(str)] = "\\x00"
         THEN strip_nul(SubSeq(str, 1, Len(str) - 1))
    ELSE str

\* cgpath = ev.path.decode(errors="ignore").strip("\x00")
decode_path(bytes) == strip_nul(decode_ignore(bytes))

\* The path fields the tracepoints can carry: data.path is zero-filled and
\* the path string is copied into it.
RawPaths ==
    { KUBE_SLICE_CGROUP \o <<"/", "pod1", "\\x00", "\\x00">>,
      CGROOT \o <<"\\xff", "/", "kubepods.slice", "\\x00">>,
      <<"/", "kubepods.slice", "/", "pod1", "\\x00">>,
      CGROOT \o <<"/", "system.slice", "\\x00">> }

\* data.type: 0 for cgroup_mkdir, 1 for cgroup_rmdir.
EventTypes == {0, 1}

\* The payload submit builds for an event it does not filter out.
cg_payload(ev, cgpath) ==
    [ts |-> wallClock(ev.ts_ns),
     type |-> IF ev.type = 0 THEN "container_create" ELSE "container_delete",
     cgroup_path |-> cgpath,
     comm |-> "unknown",
     reason |-> IF ev.type = 0 THEN "started" ELSE "exited"]

\* The state at "b = BPF(...); boot_time = time.time() - time.monotonic()".
CgInit ==
    /\ mono \in {0}
    /\ wall \in {1000, 1600}
    /\ dst_end \in {2, 1000}
    /\ boot_time = offset_now
    /\ ring = <<>>
    /\ handled = <<>>
    /\ cg_stdout = <<>>
    /\ collector = <<>>
    /\ nticks = 0
    /\ nadjust = 0

\* Time passes: both clocks advance by the same amount.
clock_advance(ms) ==
    /\ nticks < MaxTicks
    /\ nticks' = nticks + 1
    /\ mono' = mono + ms * 1000000
    /\ wall' = wall + ms
    /\ UNCHANGED <<dst_end, boot_time, ring, handled, cg_stdout, collector,
                   nadjust>>
    /\ UNCHANGED <<supVars, swapVars, oomVars>>

\* The wall clock is set back or forward; the monotonic clock is not.
wall_adjust(ms) ==
    /\ nadjust < MaxAdjust
    /\ nadjust' = nadjust + 1
    /\ wall + ms >= 0
    /\ wall' = wall + ms
    /\ UNCHANGED <<mono, dst_end, boot_time, ring, handled, cg_stdout,
                   collector, nticks>>
    /\ UNCHANGED <<supVars, swapVars, oomVars>>

\* Kernel side: TRACEPOINT_PROBE(cgroup, cgroup_mkdir / cgroup_rmdir).
cgroup_tracepoint(type, path) ==
    /\ Len(handled) + Len(ring) < MaxEvents
    /\ ring' = Append(ring, [ts_ns |-> mono, type |-> type, path |-> path])
    /\ UNCHANGED <<mono, wall, dst_end, boot_time, handled, cg_stdout,
                   collector, nticks, nadjust>>
    /\ UNCHANGED <<supVars, swapVars, oomVars>>

\* on_event and submit(ev) for the oldest event of the perf buffer. The
\* statement that POSTs the payload is commented out in submit: the payload
\* is printed and nothing is sent to the collector.
cg_on_event ==
    /\ ring # <<>>
    /\ LET ev == Head(ring)
           cgpath == decode_path(ev.path)
       IN  /\ ring' = Tail(ring)
           /\ handled' = Append(handled, ev)
           /\ cg_stdout' =
                 IF ~startswith(cgpath, KUBE_SLICE_CGROUP) THEN cg_stdout
                 ELSE Append(cg_stdout, cg_payload(ev, cgpath))
           /\ collector' = collector
    /\ UNCHANGED <<mono, wall, dst_end, boot_time, nticks, nadjust>>
    /\ UNCHANGED <<supVars, swapVars, oomVars>>

CgNext ==
    \/ \E ms \in {600} : clock_advance(ms)
    \/ \E ms \in {-1000, 400} : wall_adjust(ms)
    \/ \E type \in EventTypes, path \in RawPaths : cgroup_tracepoint(type, path)
    \/ cg_on_event

\* The cgroup tracer as it is when it is not part of the run.
CgIdle ==
    /\ mono = 0
    /\ wall = 1000
    /\ dst_end = 1000
    /\ boot_time = 1000
    /\ ring = <<>>
    /\ handled = <<>>
    /\ cg_stdout = <<>>
    /\ collector = <<>>
    /\ nticks = 0
    /\ nadjust = 0

(***************************************************************************)
(* The OOM tracer: oom_tracer.py                                           *)
(***************************************************************************)

\* The victims: a process of a pod, a process outside the pods' slice, and a
\* process that is gone by the time its event is handled.
Pids == {101, 102, 103}

\* /proc/<pid>/cgroup as a set holding the file's lines, each line split at
\* ":"; the empty set when there is no such file.
proc_cgroup(pid) ==
    CASE pid = 101 ->
           {<< << <<"0">>, <<>>, <<"/", "kubepods.slice", "/", "pod1">> >> >>}
      [] pid = 102 ->
           {<< << <<"0">>, <<>>, <<"/", "system.slice", "/", "sshd">> >> >>}
      [] OTHER -> {}

\* str.lstrip("/")
RECURSIVE lstrip_slash(_)
lstrip_slash(str) ==
    IF str # <<>> /\ Head(str) = "/" THEN lstrip_slash(Tail(str)) ELSE str

\* pid_to_cgpath: the path of the first line of three parts, joined to
\* CGROOT; the empty string when the file is not there or has no such line.
pid_to_cgpath(pid) ==
    IF proc_cgroup(pid) = {} THEN <<>>
    ELSE LET lines == CHOOSE f \in proc_cgroup(pid) : TRUE
             three == SelectSeq(lines, LAMBDA parts : Len(parts) = 3)
         IN  IF three = <<>> THEN <<>>
             ELSE IF startswith(three[1][3], <<"/">>)
                  THEN path_join(CGROOT, lstrip_slash(three[1][3]))
                  ELSE path_join(CGROOT, three[1][3])

\* The lines oom_tracer.py prints on an error.
CgroupNotFound == [msg |-> "ERR: failed to find cgroup path for pid"]

PostFailed == [msg |-> "ERR: failed to post to collector"]

\* The payload submit builds, without its timestamp and its names.
oom_payload(ev) ==
    [type |-> "oom", cgroup_path |-> pid_to_cgpath(ev.tpid),
     victim_pid |-> ev.tpid]

\* The number of OOM events so far: the clock ticks once per event and once
\* per signal.
oom_nevents == oom_clock - Cardinality(oom_sigint_ts)

\* The state after open_perf_buffer, on entry to the polling loop.
OomInit ==
    /\ oom_ring = <<>>
    /\ oom_pc = "poll"
    /\ oom_posted = <<>>
    /\ oom_stdout = <<>>
    /\ oom_clock = 0
    /\ oom_sigint_ts = {}

\* Kernel side: oom_kill_process is entered for a victim and the probe
\* submits an event. The probe is attached for as long as the script lives.
kprobe__oom_kill_process(tpid) ==
    /\ oom_pc # "exited"
    /\ oom_nevents < MaxEvents
    /\ oom_clock' = oom_clock + 1
    /\ oom_ring' = Append(oom_ring, [tpid |-> tpid, ts_ns |-> oom_clock + 1])
    /\ UNCHANGED <<oom_pc, oom_posted, oom_stdout, oom_sigint_ts>>
    /\ UNCHANGED <<supVars, swapVars, cgVars>>

\* perf_buffer_poll finds an event and calls on_event, a ctypes callback.
oom_on_event ==
    /\ oom_pc = "poll"
    /\ oom_ring # <<>>
    /\ oom_pc' = "callback"
    /\ UNCHANGED <<oom_ring, oom_posted, oom_stdout, oom_clock, oom_sigint_ts>>
    /\ UNCHANGED <<supVars, swapVars, cgVars>>

\* submit(ev): the cgroup path is resolved, the payload built and handed to
\* requests.post, whatever the path; an exception of the send is caught and
\* reported, a response is not looked at. The callback then returns.
oom_submit(outcome) ==
    /\ oom_pc = "callback"
    /\ LET ev == Head(oom_ring)
       IN  /\ oom_posted' =
                 Append(oom_posted, [ev |-> ev, payload |-> oom_payload(ev)])
           /\ oom_stdout' =
                 oom_stdout
                 \o (IF proc_cgroup(ev.tpid) = {} THEN <<CgroupNotFound>>
                     ELSE <<>>)
                 \o (IF is_Exception(outcome.raises) THEN <<PostFailed>>
                     ELSE <<>>)
    /\ oom_ring' = Tail(oom_ring)
    /\ oom_pc' = "poll"
    /\ UNCHANGED <<oom_clock, oom_sigint_ts>>
    /\ UNCHANGED <<supVars, swapVars, cgVars>>

\* SIGINT reaches the tracer and KeyboardInterrupt is raised where it
\* executes. In perf_buffer_poll it is caught by the loop's except clause and
\* exit() ends the script. Inside the callback it is not an Exception, so it
\* leaves submit and on_event, and ctypes reports and drops an exception
\* that leaves a callback: the event is abandoned and the loop polls again.
oom_sigint ==
    /\ oom_pc # "exited"
    /\ Cardinality(oom_sigint_ts) < MaxSignals
    /\ oom_clock' = oom_clock + 1
    /\ oom_sigint_ts' = oom_sigint_ts \cup {oom_clock + 1}
    /\ IF oom_pc = "callback"
       THEN /\ oom_ring' = Tail(oom_ring)
            /\ oom_pc' = "poll"
       ELSE /\ oom_ring' = oom_ring
            /\ oom_pc' = "exited"
    /\ UNCHANGED <<oom_posted, oom_stdout>>
    /\ UNCHANGED <<supVars, swapVars, cgVars>>

OomNext ==
    \/ \E tpid \in Pids : kprobe__oom_kill_process(tpid)
    \/ oom_on_event
    \/ \E outcome \in PostOutcomes : oom_submit(outcome)
    \/ oom_sigint

\* The supervisor as it is before it is started, for the specifications of
\* the tracers.
SupIdle ==
    /\ tracers = <<>>
    /\ procs = <<>>
    /\ frame = Frame("run_tracers", 1, "None")
    /\ depth = 0
    /\ handlers = {}
    /\ exitcode = {}
    /\ nsignals = 0
    /\ round = 0
    /\ log = <<>>

vars == <<supVars, swapVars, cgVars, oomVars>>

Init == SupInit /\ SwapInit /\ CgIdle /\ OomInit

Next == SupNext

Spec == Init /\ [][Next]_vars

\* The swap-latency tracer alone.
SwapSpecInit == SupIdle /\ SwapInit /\ CgIdle /\ OomInit

SwapSpec == SwapSpecInit /\ [][SwapNext]_vars

\* The cgroup tracer alone, with the clocks.
CgSpecInit == SupIdle /\ SwapInit /\ CgInit /\ OomInit

CgSpec == CgSpecInit /\ [][CgNext]_vars

\* The supervisor with tracers that write to their captured stdout.
PipeNext ==
    \/ SupNext
    \/ \E k \in 1..Len(procs) : tracer_print(k)

PipeSpecInit == SupInit /\ SwapInit /\ CgIdle /\ OomInit

PipeSpec == PipeSpecInit /\ [][PipeNext]_vars

\* The OOM tracer alone.
OomSpecInit == SupIdle /\ SwapInit /\ CgIdle /\ OomInit

OomSpec == OomSpecInit /\ [][OomNext]_vars

\* The supervisor keeps executing, and a signalled tracer that handles SIGINT
\* exits. Nothing is assumed of a tracer that ignores the signal.
FairSpec ==
    /\ Spec
    /\ WF_vars(SupStep)
    /\ \A k \in 1..MaxTracers : WF_vars(obeying_exit(k))

(***************************************************************************)
(* Claims about the supervisor                                             *)
(***************************************************************************)
AllExited == \A k \in 1..Len(procs) : poll_is_not_None(procs[k])

AllSignalledOrExited ==
    \A k \in 1..Len(procs) : procs[k].sigint \/ poll_is_not_None(procs[k])

\* Process k has exited and the monitoring loop has not yet had its first
\* pass over it since: the exit happened during the current pass, or during
\* the previous one and the current pass has not gone past k.
WithinOnePollRound(k) ==
    \/ round = procs[k].exitRound
    \/ /\ round = procs[k].exitRound + 1
       /\ frame.pc \in {"poll", "report"}
       /\ frame.i <= k

\* C1: when a supervised process exits (code 0 or not) while the supervisor
\* monitors, the supervisor leaves the monitoring loop for shutdown no later
\* than the first pass over that process after the exit; the shutdown it
\* calls has sent SIGINT to every process still running before it waits; and
\* the supervisor exits only once every launched process has exited.
C1_ExitTearsDownGroup ==
    /\ \A k \in 1..Len(procs) :
          (SupState = "Running" /\ poll_is_not_None(procs[k]))
              => WithinOnePollRound(k)
    /\ (SupState = "ShuttingDown" /\ frame.signum = "None"
            /\ frame.pc \in {"wait", "exit"}) => AllSignalledOrExited
    /\ (exitcode = {0} /\ frame.signum = "None")
            => (AllExited /\ AllSignalledOrExited)

\* A group of two, one of which exited with code 1 during monitoring; the
\* other was sent SIGINT and the supervisor has exited, with no external
\* signal involved.
C1_Witness ==
    /\ exitcode = {0}
    /\ nsignals = 0
    /\ Len(procs) >= 2
    /\ \E k \in 1..Len(procs) :
          /\ procs[k].returncode = {1}
          /\ ~procs[k].sigint
          /\ procs[k].exitRound >= 1
    /\ \E k \in 1..Len(procs) : procs[k].sigint

\* C2: a SIGINT or SIGTERM delivered once both handlers are installed puts the
\* supervisor into shutdown; by the time it waits, every launched process
\* still running has been sent SIGINT; and it exits with code 0 only after
\* every launched process has exited.
C2_SignalDrainsGroup ==
    handlers = Signals =>
        /\ (exitcode = {} /\ nsignals > 0)
                => (depth > 0 /\ frame.pc \in {"send", "wait", "exit"})
        /\ (exitcode = {} /\ frame.signum \in Signals
                /\ frame.pc \in {"wait", "exit"}) => AllSignalledOrExited
        /\ (exitcode # {} /\ frame.signum \in Signals)
                => (exitcode = {0} /\ AllExited)

\* A group of two, both running when the signal came, both sent SIGINT, and
\* the supervisor has exited 0.
C2_Witness ==
    /\ handlers = Signals
    /\ exitcode = {0}
    /\ frame.signum \in Signals
    /\ Len(procs) >= 2
    /\ \A k \in 1..Len(procs) : procs[k].sigint

\* C3: once the supervisor is shutting down it eventually terminates,
\* whatever the supervised processes do.
C3_ShutdownTerminates ==
    (SupState = "ShuttingDown") ~> (SupState = "Terminated")

(***************************************************************************)
(* Claims about the swap-latency window aggregator                         *)
(***************************************************************************)
SampleIds == 1..Len(sampled)

\* The samples a list of buckets counts.
IdsOf(buckets) == UNION {buckets[k].ids : k \in 1..Len(buckets)}

\* The samples the snapshot being built counts so far.
InFlightIds == IF swap_pc = "flush" THEN IdsOf(histogram_buckets) ELSE {}

\* The samples the accumulator counts.
HeldIds == UNION {dist[slot].ids : slot \in Slots}

PostedIds == UNION {IdsOf(posted[w].latency_distribution_us) : w \in 1..Len(posted)}

\* C4: no sample is lost: every sample recorded is counted in a snapshot
\* already produced, in the one being built, or is still in the accumulator,
\* and the counts add up to the number of samples recorded.
C4_NoSampleLost ==
    /\ \A s \in SampleIds : s \in PostedIds \cup InFlightIds \cup HeldIds
    /\ Cardinality(PostedIds \cup InFlightIds \cup HeldIds) = Len(sampled)

\* The places that count sample s: a bucket of a posted payload, or a bucket
\* of the snapshot being built.
CountedAt(s) ==
    {<<w, k>> \in (1..Len(posted)) \X (1..Cardinality(Slots)) :
        /\ k <= Len(posted[w].latency_distribution_us)
        /\ s \in posted[w].latency_distribution_us[k].ids}
    \cup
    {<<0, k>> : k \in {j \in 1..Len(histogram_buckets) :
                          swap_pc = "flush" /\ s \in histogram_buckets[j].ids}}

\* C5: no sample is counted twice: a sample is counted by at most one bucket
\* of at most one snapshot, and a sample a posted snapshot counts is no
\* longer in the accumulator, so it cannot reach a later snapshot.
C5_NoDoubleCount ==
    /\ \A s \in SampleIds : Cardinality(CountedAt(s)) <= 1
    /\ PostedIds \cap HeldIds = {}
    /\ \A w \in 1..Len(posted) :
          \A k \in 1..Len(posted[w].latency_distribution_us) :
             LET b == posted[w].latency_distribution_us[k]
             IN  b.count = Cardinality(b.ids)

\* Two windows each delivered a snapshot with samples in it.
C5_Witness ==
    /\ Len(posted) = 2
    /\ IdsOf(posted[1].latency_distribution_us) # {}
    /\ IdsOf(posted[2].latency_distribution_us) # {}

\* Windows whose flush has run to its end.
CompletedWindows == IF swap_pc = "flush" THEN window - 1 ELSE window

\* C6: an empty window is suppressed: every payload posted has at least one
\* bucket and no bucket with count 0, so a window without a non-zero bucket
\* posts nothing; and there is at most one payload per completed window.
C6_EmptyWindowSuppressed ==
    /\ \A w \in 1..Len(posted) :
          LET bs == posted[w].latency_distribution_us
          IN  /\ bs # <<>>
              /\ \A k \in 1..Len(bs) : bs[k].count > 0
    /\ Len(posted) <= CompletedWindows

\* A window with samples was delivered, and the empty window that followed
\* it ran to its end without a payload; the loop is back at its sleep.
C6_Witness ==
    /\ swap_pc = "sleep"
    /\ window = 2
    /\ Len(posted) = 1
    /\ histogram_buckets = <<>>
    /\ Len(sampled) > 0

\* The bucket indexes up to the highest slot a sample can reach.
BucketIndexes == 0..(CHOOSE m \in Slots : \A x \in Slots : x <= m)

\* C7: bucket i is reported as [2^i, 2^(i+1) - 1], consecutive indexes give
\* contiguous ranges, and the buckets of every posted payload are strictly
\* ascending by range_start and do not overlap, in whatever order the table
\* yielded them.
C7_SnapshotShape ==
    /\ \A i \in BucketIndexes :
          /\ range_start_us(i) = 2 ^ i
          /\ range_end_us(i) = 2 * range_start_us(i) - 1
          /\ range_start_us(i + 1) = range_end_us(i) + 1
    /\ \A w \in 1..Len(posted) :
          LET bs == posted[w].latency_distribution_us
          IN  /\ \A k \in 1..Len(bs) :
                    \E i \in Slots :
                       /\ bs[k].range_start_us = 2 ^ i
                       /\ bs[k].range_end_us = 2 ^ (i + 1) - 1
              /\ \A k \in 1..(Len(bs) - 1) :
                    /\ bs[k].range_start_us < bs[k + 1].range_start_us
                    /\ bs[k].range_end_us < bs[k + 1].range_start_us

\* The window just posted had two buckets or more, and the table yielded a
\* higher slot before a lower one.
C7_Witness ==
    /\ swap_pc = "sleep"
    /\ Len(posted) >= 1
    /\ Len(histogram_buckets) >= 2
    /\ Len(posted[Len(posted)].latency_distribution_us) = Len(histogram_buckets)
    /\ histogram_buckets[1].range_start_us > histogram_buckets[2].range_start_us

\* A bucket as the collector sees it.
Wire(b) ==
    [range_start_us |-> b.range_start_us, range_end_us |-> b.range_end_us,
     count |-> b.count]

\* The multiset of latencies (us) recorded so far is {10, 10, 2000}.
ScenarioB ==
    /\ Len(sampled) = 3
    /\ Cardinality({s \in SampleIds : ns_to_us(sampled[s]) = 10}) = 2
    /\ Cardinality({s \in SampleIds : ns_to_us(sampled[s]) = 2000}) = 1

\* C8: a sample of v >= 1 us is counted in the bucket whose reported range
\* contains v; samples {10, 10, 2000} flushed in one window give exactly the
\* buckets 8-15 with count 2 and 1024-2047 with count 1.
C8_BucketPlacement ==
    /\ \A w \in 1..Len(posted) :
          LET bs == posted[w].latency_distribution_us
          IN  \A k \in 1..Len(bs) : \A s \in bs[k].ids :
                 LET v == ns_to_us(sampled[s])
                 IN  v >= 1 =>
                        (bs[k].range_start_us <= v /\ v <= bs[k].range_end_us)
    /\ (ScenarioB /\ Len(posted) = 1 /\ PostedIds = SampleIds) =>
          [k \in 1..Len(posted[1].latency_distribution_us) |->
              Wire(posted[1].latency_distribution_us[k])]
          = << [range_start_us |-> 8, range_end_us |-> 15, count |-> 2],
               [range_start_us |-> 1024, range_end_us |-> 2047, count |-> 1] >>

(***************************************************************************)
(* Claims about the clock conversion and the cgroup tracer                 *)
(***************************************************************************)
\* The kernel timestamps of the events submitted so far.
SeenTimestamps ==
    {handled[k].ts_ns : k \in 1..Len(handled)} \cup
    {ring[k].ts_ns : k \in 1..Len(ring)} \cup {mono}

\* C9: with the offset captured once at startup, the conversion preserves
\* order: for kernel timestamps t1 < t2 the emitted wall-clock value of t1
\* is not later than that of t2, and the "ts" values the tracer emits for
\* events handled in timestamp order never go back.
C9_ClockOrderPreserving ==
    /\ \A t1, t2 \in SeenTimestamps :
          t1 < t2 => instant_of(wallClock(t1)) <= instant_of(wallClock(t2))
    /\ \A k \in 1..(Len(cg_stdout) - 1) :
          instant_of(cg_stdout[k].ts) <= instant_of(cg_stdout[k + 1].ts)

\* Two events were emitted, the wall clock was set back by a second between
\* the startup and the second one, and the second "ts" is of a later second
\* than the first although its local time of day, after the fall-back of
\* the UTC offset, reads earlier.
C9_Witness ==
    /\ Len(cg_stdout) = 2
    /\ nadjust > 0
    /\ wall < boot_time + to_float(mono)
    /\ instant_of(cg_stdout[1].ts) < instant_of(cg_stdout[2].ts)
    /\ cg_stdout[2].ts.datetime < cg_stdout[1].ts.datetime

\* The raw events handled so far whose decoded path is in scope.
InScopeHandled ==
    {k \in 1..Len(handled) :
        startswith(decode_path(handled[k].path), KUBE_SLICE_CGROUP)}

\* C10: no payload reaches the collector for an event whose decoded path
\* does not start with the scope prefix, and every handled event whose
\* decoded path does start with it has been delivered to the collector
\* exactly once.
C10_ScopeFilter ==
    /\ \A k \in 1..Len(collector) :
          startswith(collector[k].cgroup_path, KUBE_SLICE_CGROUP)
    /\ Len(collector) = Cardinality(InScopeHandled)

(***************************************************************************)
(* Claims about the supervisor's start and lifecycle                       *)
(***************************************************************************)

\* The identifiers run_tracers has been through: the loop's position while
\* it runs (or was cut short), the whole list afterwards.
Considered ==
    IF frame.pc = "run_tracers" THEN frame.i - 1 ELSE Len(tracers)

\* An identifier whose executable is there.
Resolvable(tracer) == tracer \in {"obeys", "ignores"}

\* The resolvable identifiers among the first n of the list, in list order.
ResolvableAmong(n) == SelectSeq(SubSeq(tracers, 1, n), Resolvable)

\* The start-up lines of the log: one per identifier considered.
StartLines ==
    SelectSeq(log, LAMBDA l : l.msg \in {"Starting tracer", "not found"})

\* C13: at every point of the start and after it, the processes launched are
\* exactly the resolvable identifiers considered so far, once each and in
\* list order, each with its stdout and stderr captured; every identifier
\* considered has its line in the log, "not found" for a missing one; and
\* nothing but an external signal ends the supervisor during the start.
C13_StartLaunchesResolvable ==
    /\ [k \in 1..Len(procs) |-> procs[k].args] = ResolvableAmong(Considered)
    /\ \A k \in 1..Len(procs) :
          procs[k].stdout = "PIPE" /\ procs[k].stderr = "PIPE"
    /\ StartLines =
          [i \in 1..Considered |->
              IF Resolvable(tracers[i])
              THEN [msg |-> "Starting tracer", tracer |-> tracers[i]]
              ELSE [msg |-> "not found", tracer |-> tracers[i]]]
    /\ (exitcode # {} /\ frame.pc = "run_tracers") => nsignals > 0

\* A missing identifier was skipped and the one after it launched.
C13_Witness ==
    /\ tracers = <<"missing", "obeys">>
    /\ frame.pc = "poll"
    /\ Len(procs) = 1
    /\ procs[1].args = "obeys"
    /\ StartLines[1].msg = "not found"

\* Line j of the log opens a shutdown called by the monitoring loop.
TracerTriggered(j) == log[j] = [msg |-> "Received signal", signum |-> "None"]

\* C14: no cancellation signal is sent before shutdown is entered; a shutdown
\* triggered by a tracer's exit is the first shutdown of the run and the line
\* before its own is the report of an exited process, with that process's pid,
\* its exit code and its captured stdout and stderr; and a supervisor that
\* has terminated after such a shutdown has exit code 0, with every process
\* exited, whatever the code of the triggering process.
C14_DiagnosticBeforeCancellation ==
    /\ depth = 0 => \A k \in 1..Len(procs) : ~procs[k].sigint
    /\ \A j \in 1..Len(log) :
          TracerTriggered(j) =>
            /\ j > 1
            /\ \A h \in 1..(j - 1) : log[h].msg # "Received signal"
            /\ \E k \in 1..Len(procs) :
                  /\ procs[k].returncode # {}
                  /\ log[j - 1] =
                       [msg |-> "exited unexpectedly", pid |-> k,
                        returncode |-> procs[k].returncode,
                        stdout |-> "PIPE", stderr |-> "PIPE"]
    /\ (exitcode # {} /\ \E j \in 1..Len(log) : TracerTriggered(j)) =>
          exitcode = {0} /\ AllExited

\* A tracer exited with code 1, was reported, the other one was signalled,
\* and the supervisor has exited with code 0.
C14_Witness ==
    /\ exitcode = {0}
    /\ Len(procs) = 2
    /\ procs[1].returncode = {1}
    /\ procs[2].sigint
    /\ \E j \in 1..Len(log) :
          /\ TracerTriggered(j)
          /\ log[j - 1].msg = "exited unexpectedly"
          /\ log[j - 1].pid = 1
          /\ log[j - 1].returncode = {1}

\* The position of a lifecycle state in the chain.
Rank(state) ==
    CASE state = "Starting" -> 1
      [] state = "Running" -> 2
      [] state = "ShuttingDown" -> 3
      [] state = "Terminated" -> 4

\* The child handles, without the state of the processes behind them.
Roster(ps) == [k \in 1..Len(ps) |-> ps[k].args]

\* C15: every step leaves the lifecycle state where it is or moves it to the
\* next state of Starting, Running, ShuttingDown, Terminated; and a step taken
\* outside Starting launches no process and leaves the roster as it is.
C15_LinearLifecycle ==
    [][/\ Rank(SupState') \in {Rank(SupState), Rank(SupState) + 1}
       /\ SupState # "Starting" => Roster(procs') = Roster(procs)]_vars

\* C16: a supervisor that has terminated leaves no launched process both
\* running and unsignalled, at whatever point of its life the external signal
\* reached it.
C16_SignalAlwaysTearsDown ==
    exitcode # {} =>
        \A k \in 1..Len(procs) :
            procs[k].sigint \/ procs[k].returncode # {}

\* The supervisor is in shutdown's second loop or past it.
WaitingOrPast == depth > 0 /\ frame.pc \in {"wait", "exit"}

\* C17: whenever the supervisor is in the waiting loop of shutdown, blocked or
\* not, every launched process has been sent SIGINT or had exited before its
\* turn to be signalled: the sending loop is complete before the first wait.
C17_SignalAllBeforeWaiting ==
    WaitingOrPast =>
        \A k \in 1..Len(procs) :
            procs[k].sigint \/ procs[k].returncode # {}

\* The supervisor is blocked waiting on a first process that ignores SIGINT
\* and the second process has its signal.
C17_Witness ==
    /\ frame.pc = "wait"
    /\ frame.i = 1
    /\ Len(procs) = 2
    /\ ~procs[1].obeys
    /\ procs[1].sigint
    /\ procs[1].returncode = {}
    /\ procs[2].sigint

\* C20: a supervisor that has terminated from within shutdown, whatever
\* further signals reached it there, has exit code 0 and every launched
\* process has exited.
C20_ReentrantShutdownSafe ==
    (depth > 0 /\ exitcode # {}) => exitcode = {0} /\ AllExited

(***************************************************************************)
(* Claims about delivery                                                   *)
(***************************************************************************)

\* C11: however a delivery attempt of the swap-latency tracer fails, the
\* failure is reported on the "Error posting" line and the tracer has not
\* been ended by it: it is asleep until the next window or draining one.
C11_DeliveryFailureNonFatal ==
    /\ swap_pc \in {"sleep", "flush"}
    /\ \A w \in 1..Len(responses) :
          responses[w].raises # "None" =>
              swap_stdout[w].msg = "Error posting to collector"

\* A status of the 2xx class.
Is2xx(status) == status \div 100 = 2

\* The collector answered, with a 2xx status.
Delivered(outcome) == outcome.raises = "None" /\ Is2xx(outcome.status)

\* C12: the swap-latency tracer reports a delivery attempt as successful
\* exactly when the collector answered with a 2xx status, and it makes at
\* most one attempt per window.
C12_SuccessOnly2xx ==
    /\ \A w \in 1..Len(responses) :
          swap_stdout[w].msg = "Successfully posted event"
              <=> Delivered(responses[w])
    /\ Len(posted) <= window

(***************************************************************************)
(* Claims about the OOM tracer                                             *)
(***************************************************************************)

\* C18: once a SIGINT has been handled by the OOM tracer, in whatever state
\* of its loop, the tracer has exited, and no delivery attempt is ever made
\* for an event that arrived after the signal was handled.
C18_CancellationStops ==
    /\ oom_sigint_ts # {} => oom_pc = "exited"
    /\ \A a \in 1..Len(oom_posted) :
          \A t \in oom_sigint_ts : oom_posted[a].ev.ts_ns < t

\* C19: every delivery attempt of the OOM tracer is for a victim whose cgroup
\* path lies under the pods' slice; an event whose path lies elsewhere, or is
\* empty because the cgroup could not be resolved, is never handed to the
\* send.
C19_OomScopeFilter ==
    \A a \in 1..Len(oom_posted) :
        startswith(oom_posted[a].payload.cgroup_path, KUBE_SLICE_CGROUP)

(***************************************************************************)
(* Claims about a supervisor with nothing to supervise                     *)
(***************************************************************************)

\* No identifier of the configuration has its executable: the list is empty
\* (as it also is for a configuration that is not a list) or every entry is
\* missing.
EmptyRoster == \A i \in 1..Len(tracers) : ~Resolvable(tracers[i])

\* C22: with no tracer to launch the supervisor has no process; its
\* monitoring loop never reports an exit and never calls shutdown; for as
\* long as no external signal arrives it neither shuts down nor terminates;
\* it has exit code 0 only after an external signal made it run shutdown;
\* and with both handlers installed a supervisor that has terminated has
\* exit code 0.
C22_EmptyRosterRuns ==
    EmptyRoster =>
        /\ procs = <<>>
        /\ frame.pc # "report"
        /\ \A j \in 1..Len(log) : ~TracerTriggered(j)
        /\ nsignals = 0 => exitcode = {} /\ depth = 0
        /\ exitcode = {0} => nsignals > 0 /\ depth > 0
        /\ (exitcode # {} /\ handlers = Signals) => exitcode = {0}

\* Every entry was missing, the monitoring loop went round more than once
\* with nothing to poll, and a SIGTERM then ended the supervisor with code 0.
C22_Witness ==
    /\ tracers = <<"missing", "missing">>
    /\ procs = <<>>
    /\ round = 2
    /\ frame.signum = "SIGTERM"
    /\ exitcode = {0}

(***************************************************************************)
(* Claims about the captured output of the tracers                         *)
(***************************************************************************)

\* Process k is alive and inside a write to its stdout pipe, which is full.
BlockedWriting(k) ==
    /\ procs[k].returncode = {}
    /\ procs[k].blocked
    /\ procs[k].buffered = PipeCapacity

\* C21: while the supervisor is Running no live tracer is inside a write to
\* a full stdout pipe: a pipe that the supervisor reads only once its
\* process has exited, so that such a write can never complete.
C21_TracerNeverBlocked ==
    SupState = "Running" =>
        \A k \in 1..Len(procs) : ~BlockedWriting(k)

====
